---------------------------- MODULE Spec2Model ----------------------------
(***************************************************************************)
(* Terraform provider for Zabbix: the CRUD handlers of the User (two       *)
(* revisions of resource_user.go), UserGroup and Proxy entities, and their *)
(* data-source lookups.                                                    *)
(*                                                                         *)
(* A behaviour follows one schema.ResourceData `d` (its identity `id` and  *)
(* its field map `d`) through a series of handler invocations.  Each       *)
(* handler runs to completion in one step (the handlers are synchronous    *)
(* and the hosting framework serialises them).  The remote Zabbix API is   *)
(* the environment: each of its replies is a nondeterministic input of the *)
(* step.  The history variables op, pre, calls and result record the last  *)
(* handler invoked, the local state it was entered with, the remote calls  *)
(* it issued (with their replies) and the error it returned.               *)
(***************************************************************************)
EXTENDS Integers, Sequences, FiniteSets, TLC

VARIABLES schema, id, d, op, pre, calls, result

vars == <<schema, id, d, op, pre, calls, result>>

\* Longest record list a remote get replies with.
MaxRecords == 2

\* Longest host_permission list a UserGroup is configured with.
MaxPermissions == 2

\* The nil error.
NoErr == "<nil>"

\* The nil interface value d.Get yields for a key its schema does not hold.
Nil == "<nil interface>"

\* Errors the remote client can return.
RemoteErrors == {"remote error A", "remote error B"}

\* Identities the remote assigns to created entities.
NewIds == {"10", "11"}

\* Identities a tracked resource can hold when a handler is entered.
KnownIds == {"1", "2"}

---------------------------------------------------------------------------
(* schema.ResourceData                                                     *)

\* d.SetId(v)
SetId(st, v) == [st EXCEPT !.id = v]

\* d.Set(k, v): stores v under a key of the schema; for any other key it
\* returns an error (which every caller here drops) and stores nothing.
Set(st, k, v) == IF k \in DOMAIN st.d THEN [st EXCEPT !.d[k] = v] ELSE st

\* d.Get(k): the value under a key of the schema, nil for any other key.
Get(st, k) == IF k \in DOMAIN st.d THEN st.d[k] ELSE Nil

\* d.GetOk(k): the value and whether it is set to a non-zero value.
GetOk(st, k) == [v |-> Get(st, k), ok |-> k \in DOMAIN st.d /\ st.d[k] # ""]

\* One call of the remote client, logged with the reply it got.
Call(st, method, arg, reply) ==
    [st EXCEPT !.calls = Append(@, [method |-> method, arg |-> arg,
                                    err |-> reply.err, ret |-> reply.ret])]

\* The handler returns e.
Return(st, e) == [id |-> st.id, d |-> st.d, calls |-> st.calls, result |-> e]

\* The state a handler is entered with.
Enter(i, F) == [id |-> i, d |-> F, calls |-> <<>>]

---------------------------------------------------------------------------
(* Replies of the remote                                                   *)

RECURSIVE SeqsUpTo(_, _)
SeqsUpTo(S, n) ==
    IF n = 0 THEN {<<>>}
    ELSE LET shorter == SeqsUpTo(S, n - 1)
         IN  shorter \cup {Append(s, x) : s \in {t \in shorter : Len(t) = n - 1}, x \in S}

\* xxxGet: an error, or up to MaxRecords records out of pool.
GetReplies(pool) ==
    {[err |-> e, ret |-> <<>>] : e \in RemoteErrors}
        \cup {[err |-> NoErr, ret |-> s] : s \in SeqsUpTo(pool, MaxRecords)}

\* xxxCreate: an error, or the identity written into items[0].
CreateReplies ==
    {[err |-> e, ret |-> <<>>] : e \in RemoteErrors}
        \cup {[err |-> NoErr, ret |-> <<i>>] : i \in NewIds}

\* xxxUpdate, xxxDeleteByIds: an error or success.
PlainReplies == {[err |-> e, ret |-> <<>>] : e \in RemoteErrors \cup {NoErr}}

\* What the remote holds after a successful create of item: item under the
\* identity it assigned.
Stored(item, idField, cr) ==
    IF cr.err = NoErr THEN {[item EXCEPT ![idField] = cr.ret[1]]} ELSE {}


\* A handler invoked as h with state st has ended as out.
Finish(h, st, out) ==
    /\ op' = h
    /\ pre' = [id |-> st.id, d |-> st.d]
    /\ id' = out.id
    /\ d' = out.d
    /\ calls' = out.calls
    /\ result' = out.result
    /\ UNCHANGED schema

---------------------------------------------------------------------------
(* User (resource_user.go, first revision)                                 *)

\* The keys of the resource schema.
resourceUser == {"username", "password", "roleid", "name", "surname", "groups"}

\* The keys of the data-source schema.
dataUser == {"username"}

\* Valid field values of a User resource.
UserConfigs ==
    { [username |-> "alice", password |-> "pw1", roleid |-> "role1",
       name |-> "Alice", surname |-> "Smith", groups |-> {"7"}],
      [username |-> "bob", password |-> "", roleid |-> "role2",
       name |-> "", surname |-> "", groups |-> {}] }

\* Valid field values of a User data source.
DataUserConfigs == {[username |-> u] : u \in {"alice", "bob"}}

\* zabbix.User records the remote may hold.
UsersRemote ==
    { [UserID |-> "1", Username |-> "alice", Password |-> "", RoleID |-> "role3",
       Name |-> "Alicia", Surname |-> "Jones", Groups |-> {[UserGroupID |-> "8"]}],
      [UserID |-> "2", Username |-> "carol", Password |-> "", RoleID |-> "role4",
       Name |-> "Carol", Surname |-> "King", Groups |-> {}] }

\* The group references of the request.  Set.List() orders them by hash;
\* nothing modelled here reads that order, so the list is kept as a set.
resourceUserGroupsV1(st) == {[UserGroupID |-> raw] : raw \in Get(st, "groups")}

\* The item resourceUserCreate sends (UserID is left at its zero value).
userCreateItem(st) ==
    [UserID |-> "", Username |-> Get(st, "username"), Password |-> Get(st, "password"),
     RoleID |-> Get(st, "roleid"), Name |-> Get(st, "name"),
     Surname |-> Get(st, "surname"), Groups |-> resourceUserGroupsV1(st)]

\* The item resourceUserUpdate sends.
userUpdateItem(st) ==
    [UserID |-> st.id, Username |-> Get(st, "username"), Password |-> Get(st, "password"),
     RoleID |-> Get(st, "roleid"), Name |-> Get(st, "name"),
     Surname |-> Get(st, "surname"), Groups |-> resourceUserGroupsV1(st)]

\* userRead without the d.SetId("") of its zero-records branch; told apart
\* by ZeroRecordsClearIdentity.
userReadKeepsIdOnZero(st, params, gr) ==
    LET s1 == Call(st, "UsersGet", params, gr)
    IN  IF gr.err # NoErr THEN Return(s1, gr.err)
        ELSE IF Len(gr.ret) < 1 THEN Return(s1, NoErr)
        ELSE IF Len(gr.ret) > 1 THEN Return(s1, "multiple Users found")
        ELSE LET t  == gr.ret[1]
                 s2 == SetId(s1, t.UserID)
                 s3 == Set(s2, "username", t.Username)
                 s4 == Set(s3, "roleid", t.RoleID)
                 s5 == Set(s4, "name", t.Name)
                 s6 == Set(s5, "surname", t.Surname)
             IN  Return(s6, NoErr)

userRead(st, params, gr) ==
    LET s1 == Call(st, "UsersGet", params, gr)
    IN  IF gr.err # NoErr THEN Return(s1, gr.err)
        ELSE IF Len(gr.ret) < 1 THEN Return(SetId(s1, ""), NoErr)
        ELSE IF Len(gr.ret) > 1 THEN Return(s1, "multiple Users found")
        ELSE LET t  == gr.ret[1]
                 s2 == SetId(s1, t.UserID)
                 s3 == Set(s2, "username", t.Username)
                 s4 == Set(s3, "roleid", t.RoleID)
                 s5 == Set(s4, "name", t.Name)
                 s6 == Set(s5, "surname", t.Surname)
             IN  Return(s6, NoErr)

dataUserRead(st, gr) ==
    userRead(st, "filter" :> ("username" :> Get(st, "username")), gr)

resourceUserRead(st, gr) == userRead(st, "userids" :> st.id, gr)

resourceUserCreate(st, cr, gr) ==
    LET s1 == Call(st, "UsersCreate", <<userCreateItem(st)>>, cr)
    IN  IF cr.err # NoErr THEN Return(s1, cr.err)
        ELSE resourceUserRead(SetId(s1, cr.ret[1]), gr)

\* resourceUserUpdate going on to its read whatever UsersUpdate returned;
\* told apart by RemoteErrorPassedThrough.
resourceUserUpdateIgnoresError(st, ur, gr) ==
    LET s1 == Call(st, "UsersUpdate", <<userUpdateItem(st)>>, ur)
    IN  resourceUserRead(s1, gr)

resourceUserUpdate(st, ur, gr) ==
    LET s1 == Call(st, "UsersUpdate", <<userUpdateItem(st)>>, ur)
    IN  IF ur.err # NoErr THEN Return(s1, ur.err)
        ELSE resourceUserRead(s1, gr)

resourceUserDelete(st, dr) ==
    LET s1 == Call(st, "UsersDeleteByIds", <<st.id>>, dr)
    IN  Return(s1, dr.err)

\* The framework creates a resource that has no identity yet.
ResourceUserCreate ==
    /\ schema = "resourceUser"
    /\ id = ""
    /\ \E F \in UserConfigs, cr \in CreateReplies :
         LET st == Enter("", F)
         IN  \E gr \in GetReplies(UsersRemote \cup Stored(userCreateItem(st), "UserID", cr)) :
               Finish("resourceUserCreate", st, resourceUserCreate(st, cr, gr))

\* The framework refreshes a resource it tracks.
ResourceUserRead ==
    /\ schema = "resourceUser"
    /\ id # ""
    /\ \E gr \in GetReplies(UsersRemote) :
         Finish("resourceUserRead", Enter(id, d), resourceUserRead(Enter(id, d), gr))

\* The framework applies changed field values to a resource it tracks.
ResourceUserUpdate ==
    /\ schema = "resourceUser"
    /\ id # ""
    /\ \E F \in UserConfigs, ur \in PlainReplies :
         LET st == Enter(id, F)
         IN  \E gr \in GetReplies(UsersRemote \cup {userUpdateItem(st)}) :
               Finish("resourceUserUpdate", st, resourceUserUpdate(st, ur, gr))

\* The framework destroys a resource it tracks.
ResourceUserDelete ==
    /\ schema = "resourceUser"
    /\ id # ""
    /\ \E dr \in PlainReplies :
         Finish("resourceUserDelete", Enter(id, d), resourceUserDelete(Enter(id, d), dr))

\* The framework evaluates a data source from its configuration.
DataUserRead ==
    /\ schema = "dataUser"
    /\ \E F \in DataUserConfigs, gr \in GetReplies(UsersRemote) :
         Finish("dataUserRead", Enter("", F), dataUserRead(Enter("", F), gr))

---------------------------------------------------------------------------
(* User (resource_user.go, second revision)                                *)

\* The keys of the resource schema.
resourceUser2 == {"username", "password"}

\* The keys of the data-source schema.
dataUser2 == {"username"}

\* Valid field values of a User resource.
UserConfigs2 ==
    { [username |-> "alice", password |-> "pw1"],
      [username |-> "bob", password |-> "pw2"] }

\* The item resourceUserCreate sends (the other fields of zabbix.User are
\* left at their zero values).
userCreateItem2(st) ==
    [UserID |-> "", Username |-> Get(st, "username"), Password |-> Get(st, "password"),
     RoleID |-> "", Name |-> "", Surname |-> "", Groups |-> {}]

\* The item resourceUserUpdate sends.
userUpdateItem2(st) ==
    [UserID |-> st.id, Username |-> Get(st, "username"), Password |-> Get(st, "password"),
     RoleID |-> "", Name |-> "", Surname |-> "", Groups |-> {}]

\* userRead with an error of its own for a lookup that finds no record;
\* told apart by OnlyLookupErrorsAreLocal.
userRead2FailsOnZero(st, params, gr) ==
    LET s1 == Call(st, "UsersGet", params, gr)
    IN  IF gr.err # NoErr THEN Return(s1, gr.err)
        ELSE IF Len(gr.ret) < 1 THEN Return(SetId(s1, ""), "no Users found")
        ELSE IF Len(gr.ret) > 1 THEN Return(s1, "multiple Users found")
        ELSE LET t  == gr.ret[1]
                 s2 == SetId(s1, t.UserID)
                 s3 == Set(s2, "username", t.Username)
             IN  Return(s3, NoErr)

userRead2(st, params, gr) ==
    LET s1 == Call(st, "UsersGet", params, gr)
    IN  IF gr.err # NoErr THEN Return(s1, gr.err)
        ELSE IF Len(gr.ret) < 1 THEN Return(SetId(s1, ""), NoErr)
        ELSE IF Len(gr.ret) > 1 THEN Return(s1, "multiple Users found")
        ELSE LET t  == gr.ret[1]
                 s2 == SetId(s1, t.UserID)
                 s3 == Set(s2, "username", t.Username)
             IN  Return(s3, NoErr)

dataUserRead2(st, gr) ==
    userRead2(st, "filter" :> ("name" :> Get(st, "name")), gr)

resourceUserRead2(st, gr) == userRead2(st, "userids" :> st.id, gr)

resourceUserCreate2(st, cr, gr) ==
    LET s1 == Call(st, "UsersCreate", <<userCreateItem2(st)>>, cr)
    IN  IF cr.err # NoErr THEN Return(s1, cr.err)
        ELSE resourceUserRead2(SetId(s1, cr.ret[1]), gr)

resourceUserUpdate2(st, ur, gr) ==
    LET s1 == Call(st, "UsersUpdate", <<userUpdateItem2(st)>>, ur)
    IN  IF ur.err # NoErr THEN Return(s1, ur.err)
        ELSE resourceUserRead2(s1, gr)

resourceUserDelete2(st, dr) ==
    LET s1 == Call(st, "UsersDeleteByIds", <<st.id>>, dr)
    IN  Return(s1, dr.err)

ResourceUserCreate2 ==
    /\ schema = "resourceUser2"
    /\ id = ""
    /\ \E F \in UserConfigs2, cr \in CreateReplies :
         LET st == Enter("", F)
         IN  \E gr \in GetReplies(UsersRemote \cup Stored(userCreateItem2(st), "UserID", cr)) :
               Finish("resourceUserCreate", st, resourceUserCreate2(st, cr, gr))

ResourceUserRead2 ==
    /\ schema = "resourceUser2"
    /\ id # ""
    /\ \E gr \in GetReplies(UsersRemote) :
         Finish("resourceUserRead", Enter(id, d), resourceUserRead2(Enter(id, d), gr))

ResourceUserUpdate2 ==
    /\ schema = "resourceUser2"
    /\ id # ""
    /\ \E F \in UserConfigs2, ur \in PlainReplies :
         LET st == Enter(id, F)
         IN  \E gr \in GetReplies(UsersRemote \cup {userUpdateItem2(st)}) :
               Finish("resourceUserUpdate", st, resourceUserUpdate2(st, ur, gr))

ResourceUserDelete2 ==
    /\ schema = "resourceUser2"
    /\ id # ""
    /\ \E dr \in PlainReplies :
         Finish("resourceUserDelete", Enter(id, d), resourceUserDelete2(Enter(id, d), dr))

DataUserRead2 ==
    /\ schema = "dataUser2"
    /\ \E F \in DataUserConfigs, gr \in GetReplies(UsersRemote) :
         Finish("dataUserRead", Enter("", F), dataUserRead2(Enter("", F), gr))

---------------------------------------------------------------------------
(* UserGroup                                                               *)

\* The keys of the resource schema.
resourceUserGroup == {"name", "debug_mode", "gui_access", "status", "host_permission"}

\* The keys of the data-source schema.
dataUserGroup == {"name"}

\* Entries a host_permission list is made of.
HostPermissions == {[id |-> "21", permission |-> 3], [id |-> "22", permission |-> 2]}

\* Valid field values of a UserGroup resource: two settings of the scalar
\* fields, each with every host_permission list of up to MaxPermissions
\* entries (in either order, with repeated entries, or empty).
UserGroupConfigs ==
    LET scalars ==
            { [name |-> "admins", debug_mode |-> 1, gui_access |-> 2, status |-> 0],
              [name |-> "guests", debug_mode |-> 0, gui_access |-> 0, status |-> 0] }
    IN  { [name |-> c.name, debug_mode |-> c.debug_mode, gui_access |-> c.gui_access,
           status |-> c.status, host_permission |-> L] :
             c \in scalars, L \in SeqsUpTo(HostPermissions, MaxPermissions) }

\* Valid field values of a UserGroup data source.
DataUserGroupConfigs == {[name |-> n] : n \in {"admins", "guests"}}

\* zabbix.UserGroup records the remote may hold.
UserGroupsRemote ==
    { [UserGroupID |-> "1", Name |-> "admins", DebugMode |-> 0, GUIAccess |-> 3,
       Status |-> 1, Permissions |-> << [ID |-> "23", Permission |-> 0] >>],
      [UserGroupID |-> "2", Name |-> "ops", DebugMode |-> 1, GUIAccess |-> 1,
       Status |-> 0, Permissions |-> << >>] }

\* The loop of resourceHostGroupPermissionsV1 from index i on:
\* permissionsRequests grows by one request per entry of permissions.
RECURSIVE appendPermissions(_, _, _)
appendPermissions(permissions, i, permissionsRequests) ==
    IF i > Len(permissions) THEN permissionsRequests
    ELSE LET permission == permissions[i]
             permissionsRequest ==
                 [ID |-> permission.id, Permission |-> permission.permission]
         IN  appendPermissions(permissions, i + 1,
                               Append(permissionsRequests, permissionsRequest))

\* resourceHostGroupPermissionsV1 with permissionsRequests allocated at the
\* length of the list before the appends; told apart by
\* HostPermissionsTranslated.
resourceHostGroupPermissionsV1Preallocated(st) ==
    LET permissions == Get(st, "host_permission")
    IN  appendPermissions(permissions, 1,
                          [i \in 1..Len(permissions) |-> [ID |-> "", Permission |-> 0]])

\* permissionsRequests starts as the nil slice.
resourceHostGroupPermissionsV1(st) ==
    appendPermissions(Get(st, "host_permission"), 1, << >>)

\* The create request with the debug-mode and status flags exchanged; told
\* apart by CreateRoundTrip.
userGroupCreateItemSwapsFlags(st) ==
    [UserGroupID |-> "", Name |-> Get(st, "name"), DebugMode |-> Get(st, "status"),
     GUIAccess |-> Get(st, "gui_access"), Status |-> Get(st, "debug_mode"),
     Permissions |-> resourceHostGroupPermissionsV1(st)]

\* The item resourceUserGroupCreate sends (UserGroupID is left at its zero value).
userGroupCreateItem(st) ==
    [UserGroupID |-> "", Name |-> Get(st, "name"), DebugMode |-> Get(st, "debug_mode"),
     GUIAccess |-> Get(st, "gui_access"), Status |-> Get(st, "status"),
     Permissions |-> resourceHostGroupPermissionsV1(st)]

\* The item resourceUserGroupUpdate sends.
userGroupUpdateItem(st) ==
    [UserGroupID |-> st.id, Name |-> Get(st, "name"), DebugMode |-> Get(st, "debug_mode"),
     GUIAccess |-> Get(st, "gui_access"), Status |-> Get(st, "status"),
     Permissions |-> resourceHostGroupPermissionsV1(st)]

\* userGroupRead without the check for more than one record; told apart by
\* MultipleRecordsFail.
userGroupReadTakesFirst(st, params, gr) ==
    LET s1 == Call(st, "UserGroupsGet", params, gr)
    IN  IF gr.err # NoErr THEN Return(s1, gr.err)
        ELSE IF Len(gr.ret) < 1 THEN Return(SetId(s1, ""), NoErr)
        ELSE LET t  == gr.ret[1]
                 s2 == SetId(s1, t.UserGroupID)
                 s3 == Set(s2, "name", t.Name)
                 s4 == Set(s3, "debug_mode", t.DebugMode)
                 s5 == Set(s4, "gui_access", t.GUIAccess)
                 s6 == Set(s5, "status", t.Status)
             IN  Return(s6, NoErr)

userGroupRead(st, params, gr) ==
    LET s1 == Call(st, "UserGroupsGet", params, gr)
    IN  IF gr.err # NoErr THEN Return(s1, gr.err)
        ELSE IF Len(gr.ret) < 1 THEN Return(SetId(s1, ""), NoErr)
        ELSE IF Len(gr.ret) > 1 THEN Return(s1, "multiple UserGroups found")
        ELSE LET t  == gr.ret[1]
                 s2 == SetId(s1, t.UserGroupID)
                 s3 == Set(s2, "name", t.Name)
                 s4 == Set(s3, "debug_mode", t.DebugMode)
                 s5 == Set(s4, "gui_access", t.GUIAccess)
                 s6 == Set(s5, "status", t.Status)
             IN  Return(s6, NoErr)

dataUserGroupRead(st, gr) ==
    userGroupRead(st, "filter" :> ("name" :> Get(st, "name")), gr)

resourceUserGroupRead(st, gr) == userGroupRead(st, "usrgrpids" :> st.id, gr)

resourceUserGroupCreate(st, cr, gr) ==
    LET s1 == Call(st, "UserGroupsCreate", <<userGroupCreateItem(st)>>, cr)
    IN  IF cr.err # NoErr THEN Return(s1, cr.err)
        ELSE resourceUserGroupRead(SetId(s1, cr.ret[1]), gr)

resourceUserGroupUpdate(st, ur, gr) ==
    LET s1 == Call(st, "UserGroupsUpdate", <<userGroupUpdateItem(st)>>, ur)
    IN  IF ur.err # NoErr THEN Return(s1, ur.err)
        ELSE resourceUserGroupRead(s1, gr)

\* resourceUserGroupDelete clearing the identity once the remote delete
\* succeeded; told apart by DeleteFrame.
resourceUserGroupDeleteClearsId(st, dr) ==
    LET s1 == Call(st, "UserGroupsDeleteByIds", <<st.id>>, dr)
    IN  IF dr.err # NoErr THEN Return(s1, dr.err)
        ELSE Return(SetId(s1, ""), NoErr)

resourceUserGroupDelete(st, dr) ==
    LET s1 == Call(st, "UserGroupsDeleteByIds", <<st.id>>, dr)
    IN  Return(s1, dr.err)

ResourceUserGroupCreate ==
    /\ schema = "resourceUserGroup"
    /\ id = ""
    /\ \E F \in UserGroupConfigs, cr \in CreateReplies :
         LET st == Enter("", F)
         IN  \E gr \in GetReplies(UserGroupsRemote
                                    \cup Stored(userGroupCreateItem(st), "UserGroupID", cr)) :
               Finish("resourceUserGroupCreate", st, resourceUserGroupCreate(st, cr, gr))

ResourceUserGroupRead ==
    /\ schema = "resourceUserGroup"
    /\ id # ""
    /\ \E gr \in GetReplies(UserGroupsRemote) :
         Finish("resourceUserGroupRead", Enter(id, d),
                resourceUserGroupRead(Enter(id, d), gr))

ResourceUserGroupUpdate ==
    /\ schema = "resourceUserGroup"
    /\ id # ""
    /\ \E F \in UserGroupConfigs, ur \in PlainReplies :
         LET st == Enter(id, F)
         IN  \E gr \in GetReplies(UserGroupsRemote \cup {userGroupUpdateItem(st)}) :
               Finish("resourceUserGroupUpdate", st, resourceUserGroupUpdate(st, ur, gr))

ResourceUserGroupDelete ==
    /\ schema = "resourceUserGroup"
    /\ id # ""
    /\ \E dr \in PlainReplies :
         Finish("resourceUserGroupDelete", Enter(id, d),
                resourceUserGroupDelete(Enter(id, d), dr))

DataUserGroupRead ==
    /\ schema = "dataUserGroup"
    /\ \E F \in DataUserGroupConfigs, gr \in GetReplies(UserGroupsRemote) :
         Finish("dataUserGroupRead", Enter("", F), dataUserGroupRead(Enter("", F), gr))

---------------------------------------------------------------------------
(* Proxy                                                                   *)

\* The keys of the resource schema.
resourceProxy ==
    {"name", "operating_mode", "description", "tls_connect", "tls_accept", "tls_issuer",
     "tls_subject", "tls_psk_identity", "tls_psk", "proxy_address"}

\* The keys of the data-source schema.
dataProxy == {"name"}

\* Valid field values of a Proxy resource.
ProxyConfigs ==
    { [name |-> "px1", operating_mode |-> 0, description |-> "first proxy",
       tls_connect |-> 2, tls_accept |-> 6, tls_issuer |-> "CN=ca",
       tls_subject |-> "CN=px1", tls_psk_identity |-> "psk-px1", tls_psk |-> "0a1b",
       proxy_address |-> "10.0.0.1,px1.example"],
      [name |-> "px2", operating_mode |-> 1, description |-> "",
       tls_connect |-> 1, tls_accept |-> 1, tls_issuer |-> "",
       tls_subject |-> "", tls_psk_identity |-> "", tls_psk |-> "",
       proxy_address |-> ""] }

\* Field values of a Proxy data source.  "name" is required by the schema;
\* dataProxyRead still provides for a lookup whose name is not set.
DataProxyConfigs == {[name |-> n] : n \in {"", "px1", "px2"}}

\* zabbix.Proxy records the remote may hold.
ProxiesRemote ==
    { [ProxyID |-> "1", Name |-> "px1", OperatingMode |-> 1, Description |-> "remote one",
       TLSConnect |-> 4, TLSAccept |-> 7, TLSIssuer |-> "CN=other-ca",
       TLSSubject |-> "CN=remote", TLSPSKIdentity |-> "psk-remote", TLSPSK |-> "ffff",
       ProxyAddress |-> "192.168.0.1"],
      [ProxyID |-> "2", Name |-> "px3", OperatingMode |-> 0, Description |-> "remote two",
       TLSConnect |-> 1, TLSAccept |-> 3, TLSIssuer |-> "",
       TLSSubject |-> "", TLSPSKIdentity |-> "psk-two", TLSPSK |-> "",
       ProxyAddress |-> "" ] }

\* The item resourceProxyCreate and resourceProxyUpdate send.
proxyItem(st) ==
    [ProxyID |-> st.id, Name |-> Get(st, "name"),
     OperatingMode |-> Get(st, "operating_mode"), Description |-> Get(st, "description"),
     TLSConnect |-> Get(st, "tls_connect"), TLSAccept |-> Get(st, "tls_accept"),
     TLSIssuer |-> Get(st, "tls_issuer"), TLSSubject |-> Get(st, "tls_subject"),
     TLSPSKIdentity |-> Get(st, "tls_psk_identity"), TLSPSK |-> Get(st, "tls_psk"),
     ProxyAddress |-> Get(st, "proxy_address")]

\* proxyRead clearing the identity when more than one record is found; told
\* apart by MultipleRecordsKeepIdentity.
proxyReadClearsIdOnMultiple(st, params, gr) ==
    LET s1 == Call(st, "ProxiesGet", params, gr)
    IN  IF gr.err # NoErr THEN Return(s1, gr.err)
        ELSE IF Len(gr.ret) < 1 THEN Return(SetId(s1, ""), NoErr)
        ELSE IF Len(gr.ret) > 1 THEN Return(SetId(s1, ""), "multiple proxys found")
        ELSE LET proxy == gr.ret[1]
                 s2  == SetId(s1, proxy.ProxyID)
                 s3  == Set(s2, "name", proxy.Name)
                 s4  == Set(s3, "operating_mode", proxy.OperatingMode)
                 s5  == Set(s4, "description", proxy.Description)
                 s6  == Set(s5, "tls_connect", proxy.TLSConnect)
                 s7  == Set(s6, "tls_accept", proxy.TLSAccept)
                 s8  == Set(s7, "tls_issuer", proxy.TLSIssuer)
                 s9  == Set(s8, "tls_subject", proxy.TLSSubject)
                 s10 == Set(s9, "tls_psk_identity", proxy.TLSPSKIdentity)
                 s11 == Set(s10, "tls_psk", proxy.TLSPSK)
                 s12 == Set(s11, "proxy_address", proxy.ProxyAddress)
             IN  Return(s12, NoErr)

\* proxyRead taking tls_connect from the record's TLSAccept; told apart by
\* ReadMirrorsMappedFields.
proxyReadSwapsTLS(st, params, gr) ==
    LET s1 == Call(st, "ProxiesGet", params, gr)
    IN  IF gr.err # NoErr THEN Return(s1, gr.err)
        ELSE IF Len(gr.ret) < 1 THEN Return(SetId(s1, ""), NoErr)
        ELSE IF Len(gr.ret) > 1 THEN Return(s1, "multiple proxys found")
        ELSE LET proxy == gr.ret[1]
                 s2  == SetId(s1, proxy.ProxyID)
                 s3  == Set(s2, "name", proxy.Name)
                 s4  == Set(s3, "operating_mode", proxy.OperatingMode)
                 s5  == Set(s4, "description", proxy.Description)
                 s6  == Set(s5, "tls_connect", proxy.TLSAccept)
                 s7  == Set(s6, "tls_accept", proxy.TLSAccept)
                 s8  == Set(s7, "tls_issuer", proxy.TLSIssuer)
                 s9  == Set(s8, "tls_subject", proxy.TLSSubject)
                 s10 == Set(s9, "tls_psk_identity", proxy.TLSPSKIdentity)
                 s11 == Set(s10, "tls_psk", proxy.TLSPSK)
                 s12 == Set(s11, "proxy_address", proxy.ProxyAddress)
             IN  Return(s12, NoErr)

proxyRead(st, params, gr) ==
    LET s1 == Call(st, "ProxiesGet", params, gr)
    IN  IF gr.err # NoErr THEN Return(s1, gr.err)
        ELSE IF Len(gr.ret) < 1 THEN Return(SetId(s1, ""), NoErr)
        ELSE IF Len(gr.ret) > 1 THEN Return(s1, "multiple proxys found")
        ELSE LET proxy == gr.ret[1]
                 s2  == SetId(s1, proxy.ProxyID)
                 s3  == Set(s2, "name", proxy.Name)
                 s4  == Set(s3, "operating_mode", proxy.OperatingMode)
                 s5  == Set(s4, "description", proxy.Description)
                 s6  == Set(s5, "tls_connect", proxy.TLSConnect)
                 s7  == Set(s6, "tls_accept", proxy.TLSAccept)
                 s8  == Set(s7, "tls_issuer", proxy.TLSIssuer)
                 s9  == Set(s8, "tls_subject", proxy.TLSSubject)
                 s10 == Set(s9, "tls_psk_identity", proxy.TLSPSKIdentity)
                 s11 == Set(s10, "tls_psk", proxy.TLSPSK)
                 s12 == Set(s11, "proxy_address", proxy.ProxyAddress)
             IN  Return(s12, NoErr)

\* The filter holds the lookup keys that are set; the handler fails before
\* any remote call when none is.
dataProxyRead(st, gr) ==
    LET lookup == GetOk(st, "name")
        filter == IF lookup.ok THEN "name" :> lookup.v ELSE << >>
        params == "filter" :> filter
    IN  IF Cardinality(DOMAIN filter) < 1
        THEN Return(st, "no proxy lookup attribute")
        ELSE proxyRead(st, params, gr)

resourceProxyRead(st, gr) == proxyRead(st, "proxyids" :> st.id, gr)

resourceProxyCreate(st, cr, gr) ==
    LET s1 == Call(st, "ProxiesCreate", <<proxyItem(st)>>, cr)
    IN  IF cr.err # NoErr THEN Return(s1, cr.err)
        ELSE resourceProxyRead(SetId(s1, cr.ret[1]), gr)

\* resourceProxyUpdate returning right after a successful ProxiesUpdate,
\* without its read; told apart by MutateThenRead.
resourceProxyUpdateSkipsRead(st, ur, gr) ==
    LET s1 == Call(st, "ProxiesUpdate", <<proxyItem(st)>>, ur)
    IN  Return(s1, ur.err)

resourceProxyUpdate(st, ur, gr) ==
    LET s1 == Call(st, "ProxiesUpdate", <<proxyItem(st)>>, ur)
    IN  IF ur.err # NoErr THEN Return(s1, ur.err)
        ELSE resourceProxyRead(s1, gr)

resourceProxyDelete(st, dr) ==
    LET s1 == Call(st, "ProxiesDeleteByIds", <<st.id>>, dr)
    IN  Return(s1, dr.err)

ResourceProxyCreate ==
    /\ schema = "resourceProxy"
    /\ id = ""
    /\ \E F \in ProxyConfigs, cr \in CreateReplies :
         LET st == Enter("", F)
         IN  \E gr \in GetReplies(ProxiesRemote \cup Stored(proxyItem(st), "ProxyID", cr)) :
               Finish("resourceProxyCreate", st, resourceProxyCreate(st, cr, gr))

ResourceProxyRead ==
    /\ schema = "resourceProxy"
    /\ id # ""
    /\ \E gr \in GetReplies(ProxiesRemote) :
         Finish("resourceProxyRead", Enter(id, d), resourceProxyRead(Enter(id, d), gr))

ResourceProxyUpdate ==
    /\ schema = "resourceProxy"
    /\ id # ""
    /\ \E F \in ProxyConfigs, ur \in PlainReplies :
         LET st == Enter(id, F)
         IN  \E gr \in GetReplies(ProxiesRemote \cup {proxyItem(st)}) :
               Finish("resourceProxyUpdate", st, resourceProxyUpdate(st, ur, gr))

ResourceProxyDelete ==
    /\ schema = "resourceProxy"
    /\ id # ""
    /\ \E dr \in PlainReplies :
         Finish("resourceProxyDelete", Enter(id, d), resourceProxyDelete(Enter(id, d), dr))

DataProxyRead ==
    /\ schema = "dataProxy"
    /\ \E F \in DataProxyConfigs, gr \in GetReplies(ProxiesRemote) :
         Finish("dataProxyRead", Enter("", F), dataProxyRead(Enter("", F), gr))

---------------------------------------------------------------------------
(* The state machine                                                       *)

Schemas ==
    {"resourceUser", "dataUser", "resourceUser2", "dataUser2",
     "resourceUserGroup", "dataUserGroup", "resourceProxy", "dataProxy"}

\* The keys of each schema.
Keys(sch) ==
    CASE sch = "resourceUser"      -> resourceUser
      [] sch = "dataUser"          -> dataUser
      [] sch = "resourceUser2"     -> resourceUser2
      [] sch = "dataUser2"         -> dataUser2
      [] sch = "resourceUserGroup" -> resourceUserGroup
      [] sch = "dataUserGroup"     -> dataUserGroup
      [] sch = "resourceProxy"     -> resourceProxy
      [] sch = "dataProxy"         -> dataProxy

\* The field values a ResourceData of each schema can be given.
Configs(sch) ==
    CASE sch = "resourceUser"      -> UserConfigs
      [] sch = "dataUser"          -> DataUserConfigs
      [] sch = "resourceUser2"     -> UserConfigs2
      [] sch = "dataUser2"         -> DataUserConfigs
      [] sch = "resourceUserGroup" -> UserGroupConfigs
      [] sch = "dataUserGroup"     -> DataUserGroupConfigs
      [] sch = "resourceProxy"     -> ProxyConfigs
      [] sch = "dataProxy"         -> DataProxyConfigs

\* Data sources: schemas with a Read handler alone.
IsData(sch) == sch \in {"dataUser", "dataUser2", "dataUserGroup", "dataProxy"}

\* A ResourceData as the framework builds it: the configured values of the
\* schema's keys; a data source has no identity, a resource has none before
\* its create and one afterwards.
Init ==
    /\ schema \in Schemas
    /\ id \in IF IsData(schema) THEN {""} ELSE {""} \cup KnownIds
    /\ d \in {F \in Configs(schema) : DOMAIN F = Keys(schema)}
    /\ op = "none"
    /\ pre = [id |-> id, d |-> d]
    /\ calls = <<>>
    /\ result = NoErr

Next ==
    \/ ResourceUserCreate
    \/ ResourceUserRead
    \/ ResourceUserUpdate
    \/ ResourceUserDelete
    \/ DataUserRead
    \/ ResourceUserCreate2
    \/ ResourceUserRead2
    \/ ResourceUserUpdate2
    \/ ResourceUserDelete2
    \/ DataUserRead2
    \/ ResourceUserGroupCreate
    \/ ResourceUserGroupRead
    \/ ResourceUserGroupUpdate
    \/ ResourceUserGroupDelete
    \/ DataUserGroupRead
    \/ ResourceProxyCreate
    \/ ResourceProxyRead
    \/ ResourceProxyUpdate
    \/ ResourceProxyDelete
    \/ DataProxyRead

Spec == Init /\ [][Next]_vars

---------------------------------------------------------------------------
(* Vocabulary of the properties                                            *)

GetMethods == {"UsersGet", "UserGroupsGet", "ProxiesGet"}

CreateMethods == {"UsersCreate", "UserGroupsCreate", "ProxiesCreate"}

UpdateMethods == {"UsersUpdate", "UserGroupsUpdate", "ProxiesUpdate"}

CreateOps == {"resourceUserCreate", "resourceUserGroupCreate", "resourceProxyCreate"}

UpdateOps == {"resourceUserUpdate", "resourceUserGroupUpdate", "resourceProxyUpdate"}

DeleteOps == {"resourceUserDelete", "resourceUserGroupDelete", "resourceProxyDelete"}

\* The entity a schema belongs to.
Entity ==
    CASE schema \in {"resourceUser", "dataUser", "resourceUser2", "dataUser2"} -> "User"
      [] schema \in {"resourceUserGroup", "dataUserGroup"} -> "UserGroup"
      [] schema \in {"resourceProxy", "dataProxy"} -> "Proxy"

\* Per entity: the identity field of its remote record, the parameter a get
\* by identity is keyed on, its delete method and its multiple-records error.
IdField ==
    CASE Entity = "User" -> "UserID"
      [] Entity = "UserGroup" -> "UserGroupID"
      [] Entity = "Proxy" -> "ProxyID"

IdParam ==
    CASE Entity = "User" -> "userids"
      [] Entity = "UserGroup" -> "usrgrpids"
      [] Entity = "Proxy" -> "proxyids"

DeleteMethod ==
    CASE Entity = "User" -> "UsersDeleteByIds"
      [] Entity = "UserGroup" -> "UserGroupsDeleteByIds"
      [] Entity = "Proxy" -> "ProxiesDeleteByIds"

MultipleError ==
    CASE Entity = "User" -> "multiple Users found"
      [] Entity = "UserGroup" -> "multiple UserGroups found"
      [] Entity = "Proxy" -> "multiple proxys found"

LastCall == calls[Len(calls)]

\* The last handler got as far as the get of its read.
ReadRan == calls # <<>> /\ LastCall.method \in GetMethods

\* The get of the last handler's read succeeded with n records / with two or more.
GotRecords(n) == ReadRan /\ LastCall.err = NoErr /\ Len(LastCall.ret) = n

GotMultiple == ReadRan /\ LastCall.err = NoErr /\ Len(LastCall.ret) >= 2

\* The last handler's remote create succeeded.
Created == calls # <<>> /\ calls[1].method \in CreateMethods /\ calls[1].err = NoErr

\* The local identity when the read of the last handler began: the identity
\* the handler was entered with, or the one a successful create stored.
IdBeforeRead == IF Created THEN calls[1].ret[1] ELSE pre.id

\* A remote record seen through the schema's keys.
Mirror(r) ==
    CASE Entity = "User" ->
           [username |-> r.Username, password |-> r.Password, roleid |-> r.RoleID,
            name |-> r.Name, surname |-> r.Surname,
            groups |-> {g.UserGroupID : g \in r.Groups}]
      [] Entity = "UserGroup" ->
           [name |-> r.Name, debug_mode |-> r.DebugMode, gui_access |-> r.GUIAccess,
            status |-> r.Status,
            host_permission |-> [i \in 1..Len(r.Permissions) |->
                                   [id |-> r.Permissions[i].ID,
                                    permission |-> r.Permissions[i].Permission]]]
      [] Entity = "Proxy" ->
           [name |-> r.Name, operating_mode |-> r.OperatingMode,
            description |-> r.Description, tls_connect |-> r.TLSConnect,
            tls_accept |-> r.TLSAccept, tls_issuer |-> r.TLSIssuer,
            tls_subject |-> r.TLSSubject, tls_psk_identity |-> r.TLSPSKIdentity,
            tls_psk |-> r.TLSPSK, proxy_address |-> r.ProxyAddress]

\* Schema keys no read refreshes.
NotRefreshed == {"password", "groups", "host_permission"}

---------------------------------------------------------------------------
(* Properties                                                              *)

\* C1: a read (resource or data source, of any entity) whose remote get
\* succeeds with zero records sets the local identity to the empty string,
\* returns no error and leaves every local field as it was.
ZeroRecordsClearIdentity ==
    GotRecords(0) => id = "" /\ result = NoErr /\ d = pre.d

\* A tracked resource was read and the remote held no record of it.
ZeroRecordsSeen == GotRecords(0) /\ pre.id # "" /\ op \notin CreateOps

\* C2: a read whose remote get succeeds with two or more records returns the
\* entity's "multiple ... found" error and writes nothing of the returned
\* records into the local state.
MultipleRecordsFail ==
    GotMultiple =>
        /\ result = MultipleError
        /\ d = pre.d
        /\ \A j \in 1..Len(LastCall.ret) :
             id = LastCall.ret[j][IdField] => id = IdBeforeRead

\* A lookup matched two records.
MultipleRecordsSeen == GotMultiple /\ IsData(schema)

\* C3 as stated: after a read whose get returned two or more records the
\* local identity is the empty string.
MultipleRecordsClearIdentity == GotMultiple => id = ""

\* C3 as the code has it: such a read leaves the local identity what it was
\* when the read began.
MultipleRecordsKeepIdentity == GotMultiple => id = IdBeforeRead

\* A tracked resource was read, two records came back, the identity stays.
MultipleRecordsKept == GotMultiple /\ pre.id # "" /\ id # ""

\* C4: a create whose request the remote stores unchanged under a fresh
\* identity i, and whose follow-up get returns exactly that stored record,
\* ends with local identity i and every local field as configured.
CreateRoundTrip ==
    (/\ op \in CreateOps
     /\ Created
     /\ GotRecords(1)
     /\ LastCall.ret[1] = [calls[1].arg[1] EXCEPT ![IdField] = calls[1].ret[1]])
        => id = calls[1].ret[1] /\ d = pre.d

\* A create was echoed back by the remote.
CreateRoundTripSeen ==
    /\ op \in CreateOps
    /\ Created
    /\ GotRecords(1)
    /\ LastCall.ret[1] = [calls[1].arg[1] EXCEPT ![IdField] = calls[1].ret[1]]
    /\ id \in NewIds

\* C5 as stated: after a read whose get returned exactly one record r, the
\* local identity is r's and every field of the schema equals r's.
ReadMirrorsEveryField ==
    GotRecords(1) =>
        /\ id = LastCall.ret[1][IdField]
        /\ \A k \in DOMAIN d : d[k] = Mirror(LastCall.ret[1])[k]

\* C5 as the code has it: the local identity is r's, every field of the
\* schema that the read maps equals r's, and the password, the group set
\* and the host-permission list keep the values they had before the read.
ReadMirrorsMappedFields ==
    GotRecords(1) =>
        /\ id = LastCall.ret[1][IdField]
        /\ \A k \in DOMAIN d :
             IF k \in NotRefreshed
             THEN d[k] = pre.d[k]
             ELSE d[k] = Mirror(LastCall.ret[1])[k]

\* A read replaced local values by those of a record that differs from them.
ReadMirrorSeen ==
    /\ GotRecords(1)
    /\ op \notin CreateOps \cup UpdateOps
    /\ \E k \in DOMAIN d : d[k] # pre.d[k]
    /\ \E k \in DOMAIN d : k \in NotRefreshed /\ d[k] # Mirror(LastCall.ret[1])[k]

\* C6 as stated: when a remote call returns an error e, the handler returns
\* exactly e, issues no further remote call, and the local identity and
\* fields are those the handler was entered with.
RemoteErrorLeavesStateUntouched ==
    \A i \in 1..Len(calls) :
        calls[i].err # NoErr =>
            result = calls[i].err /\ i = Len(calls) /\ d = pre.d /\ id = pre.id

\* C6 as the code has it: the same, except that the identity a successful
\* remote create returned stays stored when the follow-up get fails.
RemoteErrorPassedThrough ==
    \A i \in 1..Len(calls) :
        calls[i].err # NoErr =>
            /\ result = calls[i].err
            /\ i = Len(calls)
            /\ d = pre.d
            /\ id = IF Created THEN calls[1].ret[1] ELSE pre.id

\* The follow-up get of a successful create failed.
RemoteErrorAfterCreateSeen ==
    /\ Created
    /\ Len(calls) = 2
    /\ LastCall.err \in RemoteErrors
    /\ result = LastCall.err
    /\ id \in NewIds

ReadResult(c) ==
    IF c.err # NoErr THEN c.err
    ELSE IF Len(c.ret) > 1 THEN MultipleError
    ELSE NoErr

\* C8: a create or update issues its mutating call first; when that call
\* succeeds it is followed by exactly one get, keyed on the identity (the
\* one the remote create returned, or the one held locally before an
\* update), and the handler returns what that read returns: a create whose
\* follow-up get finds no record returns success with an empty identity.
MutateThenRead ==
    op \in CreateOps \cup UpdateOps =>
        /\ calls # <<>>
        /\ calls[1].method \in (IF op \in CreateOps THEN CreateMethods ELSE UpdateMethods)
        /\ calls[1].err = NoErr =>
             /\ Len(calls) = 2
             /\ calls[2].method \in GetMethods
             /\ calls[2].arg = (IdParam :> (IF op \in CreateOps THEN calls[1].ret[1]
                                                               ELSE pre.id))
             /\ result = ReadResult(calls[2])
             /\ (op \in CreateOps /\ GotRecords(0)) => (result = NoErr /\ id = "")

\* A create succeeded remotely and its follow-up get found nothing.
CreateThenNothingSeen ==
    op \in CreateOps /\ Created /\ GotRecords(0) /\ result = NoErr /\ id = ""

\* C9: dataUserRead issues one get whose filter constrains the remote
\* username field to the configured username.
DataUserFiltersOnUsername ==
    op = "dataUserRead" =>
        /\ Len(calls) = 1
        /\ calls[1].method = "UsersGet"
        /\ DOMAIN calls[1].arg = {"filter"}
        /\ DOMAIN calls[1].arg["filter"] = {"username"}
        /\ calls[1].arg["filter"]["username"] = pre.d["username"]

\* C10: a delete issues exactly one remote call, the delete-by-ids of the
\* one-element list holding the local identity, and changes neither the
\* local identity nor any local field, whether the call succeeds or fails.
DeleteFrame ==
    op \in DeleteOps =>
        /\ Len(calls) = 1
        /\ calls[1].method = DeleteMethod
        /\ calls[1].arg = <<pre.id>>
        /\ id = pre.id
        /\ d = pre.d

\* A delete succeeded remotely; the identity is still held locally.
DeleteSeen == op \in DeleteOps /\ result = NoErr /\ calls # <<>> /\ id \in KnownIds

\* C11: the permission list of a UserGroup create or update request has the
\* length of the local host_permission list, and its i-th entry carries the
\* id and the permission level of the i-th local entry: nothing is dropped,
\* duplicated or reordered, and an empty list yields an empty list.
HostPermissionsTranslated ==
    op \in {"resourceUserGroupCreate", "resourceUserGroupUpdate"} =>
        LET L == pre.d["host_permission"]
            R == calls[1].arg[1].Permissions
        IN  /\ Len(R) = Len(L)
            /\ \A i \in 1..Len(L) :
                 R[i].ID = L[i].id /\ R[i].Permission = L[i].permission

\* A request was built from a list of two different entries.
HostPermissionsSeen ==
    /\ op \in {"resourceUserGroupCreate", "resourceUserGroupUpdate"}
    /\ Len(pre.d["host_permission"]) >= 2
    /\ pre.d["host_permission"][1] # pre.d["host_permission"][2]
    /\ Len(calls[1].arg[1].Permissions) >= 2
    /\ calls[1].arg[1].Permissions[1].ID = pre.d["host_permission"][1].id

===========================================================================
